---- MODULE Spec2Model ----
(***************************************************************************)
(* State-machine model of the DynamicWindow component (src/src/Window.tsx, *)
(* the version starting at line 848): the per-sash interactive state       *)
(* (sashOpenStates, sashRotations, sashModes), the useFrame animation      *)
(* callback, handleSashOpenChange with its setTimeout reopen, the buttons  *)
(* that call it, and the props that configure the window; the geometry    *)
(* derived from the props (src/src/profileSystem.ts); and the              *)
(* configuration reducer of the window context (src/unnamed/part_001).     *)
(*                                                                         *)
(* Units.  Angles are integers in milliradians (0.001 rad).  A frame time  *)
(* delta is an integer number of 1/30 s, so that the code's                *)
(* `diff * delta * 3` is diff * delta * 3 / 30 and is truncated to a whole *)
(* milliradian.  Sash indices are 1-based here (code index + 1).           *)
(***************************************************************************)
EXTENDS Integers, Sequences, FiniteSets, TLC

VARIABLES
    windowType,      \* props.windowType parsed: the pane count
    sashChoice,      \* props.sash1Opening..sash3Opening parsed (1..6)
    profileChoice,   \* props.profile parsed
    widthCm,         \* props.width
    heightCm,        \* props.height
    pfosten1Choice,  \* props.pfosten1 parsed: 0 auto, 1 no, 2 yes
    pfosten2Choice,  \* props.pfosten2 parsed: 0 auto, 1 no, 2 yes
    sashOpenStates,  \* useState<boolean[]>
    sashRotations,   \* useState<number[]>, milliradians
    sashModes,       \* useState<("dreh"|"kipp")[]>
    timers,          \* pending setTimeout callbacks of handleSashOpenChange, oldest first
    nClicks,         \* history: button clicks so far
    lastClicked,     \* history: the sash whose button was clicked last (0: none)
    nTicks,          \* history: animation frames so far
    nProps,          \* history: prop changes so far
    switchReq,       \* history: per sash, the mode of a mode switch not yet followed by another toggle
    fixedDelta,      \* the frame time of a fixed-rate run (0: frame times vary)
    reducerState,    \* the WindowConfiguration held by useReducer(windowReducer, ...)
    lastAction       \* history: the action dispatched last

vars == <<windowType, sashChoice, profileChoice, widthCm, heightCm,
          pfosten1Choice, pfosten2Choice,
          sashOpenStates, sashRotations, sashModes, timers,
          nClicks, lastClicked, nTicks, nProps, switchReq, fixedDelta,
          reducerState, lastAction>>

config == <<windowType, sashChoice, profileChoice, widthCm, heightCm,
            pfosten1Choice, pfosten2Choice>>
pfosten == <<pfosten1Choice, pfosten2Choice>>
sashState == <<sashOpenStates, sashRotations, sashModes>>
reducer == <<reducerState, lastAction>>

----------------------------------------------------------------------------
(* Bounds of the model *)

MaxClicks == 4
MaxTicks == 1
MaxProps == 1
MaxTimers == 2
MaxKinTicks == 64
ConvergenceTicks == 60

----------------------------------------------------------------------------
(* Program constants *)

MaxPanes == 3              \* windowType options "1", "2", "3"
PiOver16 == 196            \* Math.PI / 16 in milliradians
Pi06 == 1885               \* Math.PI * 0.6 in milliradians
SnapThreshold == 10        \* 0.01 rad
AnimationSpeed == 3        \* the factor 3 of diff * delta * 3
DeltaPerSecond == 30       \* delta units per second
ShowOpeningVizChoice == 1  \* props.showOpeningViz default: 1 = yes

\* Frame times (in 1/30 s) the render loop may hand to the useFrame callback:
\* 33 ms, 100 ms, 400 ms and 667 ms.  THREE.Clock.getDelta() is not clamped.
DeltaSet == {1, 3, 12, 20}

WidthChoices == {100, 150}
HeightChoices == {120, 160}
ProfileChoices == {2, 3}
OpeningChoices == 1..6
Modes == {"dreh", "kipp"}

\* The sash opening selections a window is mounted with: the default props
\* (5, 6, 5) and two more that together mount every opening kind.
InitialSashChoices ==
    {<<5, 6, 5>>, <<1, 2, 3>>, <<4, 6, 1>>}

openingTypes ==
    <<"fixed", "kipp", "dreh-links", "dreh-rechts",
      "dreh-kipp-links", "dreh-kipp-rechts">>

----------------------------------------------------------------------------
(* Pure helpers *)

Abs(x) == IF x < 0 THEN -x ELSE x

\* Integer quotient truncated toward zero.
TruncDiv(a, b) == IF a >= 0 THEN a \div b ELSE -((-a) \div b)

showOpeningViz == ShowOpeningVizChoice = 1

\* openingTypes[choice - 1] || "fixed"
OpeningTypeOf(choice) ==
    IF choice \in 1..Len(openingTypes) THEN openingTypes[choice] ELSE "fixed"

\* openingConfigs[index]: defined for the sashes below the pane count only.
HasConfig(index) == index \in 1..windowType

ConfigType(index) == OpeningTypeOf(sashChoice[index])

\* openingConfigs[index]?.type || "fixed"
OpeningType(index) ==
    IF HasConfig(index) THEN ConfigType(index) ELSE "fixed"

IsHybrid(index) ==
    OpeningType(index) \in {"dreh-kipp-links", "dreh-kipp-rechts"}

\* sashModes[index] || "dreh"
ModeAt(modes, index) ==
    IF index \in 1..Len(modes) THEN modes[index] ELSE "dreh"

\* sashOpenStates[index] || false
OpenAt(opens, index) ==
    IF index \in 1..Len(opens) THEN opens[index] ELSE FALSE

----------------------------------------------------------------------------
(* useFrame callback, Window.tsx 1059-1110 *)

\* A target table that ignores the stored mode of a hybrid sash.
TargetRotationIgnoringMode(index) ==
    IF ~sashOpenStates[index] \/ ~HasConfig(index) THEN 0
    ELSE CASE ConfigType(index) = "kipp" -> PiOver16
           [] ConfigType(index) \in {"dreh-links", "dreh-kipp-links"} -> -Pi06
           [] ConfigType(index) \in {"dreh-rechts", "dreh-kipp-rechts"} -> Pi06
           [] OTHER -> 0

\* targetRotations[index - 1], lines 1062-1099.
TargetRotation(index) ==
    IF ~sashOpenStates[index] THEN 0
    ELSE IF ~HasConfig(index) THEN 0
    ELSE LET mode == ModeAt(sashModes, index)
             type == ConfigType(index)
         IN CASE type = "fixed" -> 0
              [] type = "kipp" -> PiOver16
              [] type = "dreh-links" -> -Pi06
              [] type = "dreh-rechts" -> Pi06
              [] type = "dreh-kipp-links" ->
                     IF mode = "kipp" THEN PiOver16 ELSE -Pi06
              [] type = "dreh-kipp-rechts" ->
                     IF mode = "kipp" THEN PiOver16 ELSE Pi06
              [] OTHER -> 0

\* targetRotations[i] || 0
TargetOrZero(index) ==
    IF index \in 1..Len(sashOpenStates) THEN TargetRotation(index) ELSE 0

\* One sash of the "smooth animation" update, lines 1104-1107.
Approach(current, target, delta) ==
    LET diff == target - current
    IN IF Abs(diff) < SnapThreshold THEN target
       ELSE current + TruncDiv(diff * delta * AnimationSpeed, DeltaPerSecond)

\* The value setSashRotations receives in one frame, lines 1060 and 1102-1109.
FrameRotations(delta) ==
    IF Len(sashRotations) = 0 THEN sashRotations
    ELSE [i \in 1..Len(sashRotations) |->
             Approach(sashRotations[i], TargetOrZero(i), delta)]

----------------------------------------------------------------------------
(* Lazy state initialisation during render, Window.tsx 1208-1213 *)

\* One render pass appends one default entry for every sash index of the
\* pane count that the array (as seen by that render) does not have yet.
\* A lazy initialisation that appends a single entry per render.
LazyInitOnce(arr, count, default) ==
    arr \o [k \in 1..(IF count > Len(sashRotations) THEN 1 ELSE 0) |-> default]

LazyInit(arr, count, default) ==
    arr \o [k \in 1..(IF count > Len(sashRotations)
                      THEN count - Len(sashRotations) ELSE 0) |-> default]

----------------------------------------------------------------------------
(* handleSashOpenChange, Window.tsx 1112-1165 *)

\* An array update that writes the value to every index.
SetAtAll(arr, index, value) == [k \in 1..Len(arr) |-> value]

\* newArr[index] = value on a copy of arr (index is within the array: the
\* buttons exist for rendered sashes only and the arrays never shrink).
SetAt(arr, index, value) == [arr EXCEPT ![index] = value]

\* Line 1121: switching modes while open.
IsModeSwitch(index, mode) ==
    OpenAt(sashOpenStates, index) /\ ModeAt(sashModes, index) # mode

\* History only: a later call for the same sash supersedes its pending reopens.
Supersede(index) ==
    [k \in 1..Len(timers) |->
        IF timers[k].index = index
        THEN [timers[k] EXCEPT !.superseded = TRUE]
        ELSE timers[k]]

HandleSashOpenChange(index, isOpen, mode) ==
    IF IsModeSwitch(index, mode)
    THEN /\ Len(timers) < MaxTimers
         /\ sashRotations' = SetAt(sashRotations, index, 0)
         /\ sashModes' = SetAt(sashModes, index, mode)
         /\ sashOpenStates' = SetAt(sashOpenStates, index, FALSE)
         /\ timers' = Append(Supersede(index),
                             [index |-> index, superseded |-> FALSE])
         /\ switchReq' = [switchReq EXCEPT ![index] = mode]
    ELSE /\ sashOpenStates' = SetAt(sashOpenStates, index, isOpen)
         /\ sashModes' = SetAt(sashModes, index, mode)
         /\ timers' = Supersede(index)
         /\ switchReq' = [switchReq EXCEPT ![index] = "none"]
         /\ UNCHANGED sashRotations

\* The setTimeout callback, lines 1143-1149.
ReopenCallback(index) ==
    sashOpenStates' = SetAt(sashOpenStates, index, TRUE)

----------------------------------------------------------------------------
(* The buttons, Window.tsx 1400-1445 and OpeningVisualization.tsx 224-228 *)

\* A button guard that does not exclude fixed sashes.
ButtonsRenderedForAnyKind(index) == showOpeningViz /\ HasConfig(index)

\* Lines 1401-1403: the buttons of a sash are rendered.
ButtonsRendered(index) ==
    showOpeningViz /\ HasConfig(index) /\ ConfigType(index) # "fixed"

\* isOpen prop of the main (dreh) button, lines 1419-1421.
MainButtonIsOpen(index) ==
    OpenAt(sashOpenStates, index)
        /\ (~IsHybrid(index) \/ ModeAt(sashModes, index) = "dreh")

\* isOpen prop of the kipp button, line 1436.
KippButtonIsOpen(index) ==
    OpenAt(sashOpenStates, index) /\ ModeAt(sashModes, index) = "kipp"

----------------------------------------------------------------------------
(* Geometry derived from the props on every render.                        *)
(* Lengths are integers in 1/600 mm, so that the halves, thirds and the    *)
(* factors 0.15, 0.3, 0.6, 0.7 and 0.9 of whole millimetres are exact;     *)
(* floating-point rounding is not modelled.                                *)

UnitsPerMm == 600
GlassThicknessMm == 24     \* 24mm double glazing
SashClearanceMm == 3       \* SASH_CLEARANCE = 0.003

\* Per cent of a length whose hundredth is a whole number of units.
Pct(p, len) == (p * len) \div 100

profileKeys == <<"minimal", "modern-slim", "modern-wide", "traditional">>

\* PROFILE_LIBRARY: width and depth in mm.
PROFILE_LIBRARY ==
    [key \in {"minimal", "modern-slim", "modern-wide", "traditional"} |->
        CASE key = "minimal" -> [width |-> 40, depth |-> 50]
          [] key = "modern-slim" -> [width |-> 60, depth |-> 70]
          [] key = "modern-wide" -> [width |-> 80, depth |-> 82]
          [] key = "traditional" -> [width |-> 100, depth |-> 90]]

\* A lookup that takes the nearest library entry for a choice out of range.
profileKeyNearest ==
    IF profileChoice \in 1..Len(profileKeys) THEN profileKeys[profileChoice]
    ELSE IF profileChoice > Len(profileKeys) THEN profileKeys[Len(profileKeys)]
    ELSE profileKeys[1]

\* profileKeys[profileChoice - 1] || "modern-slim"
profileKey ==
    IF profileChoice \in 1..Len(profileKeys)
    THEN profileKeys[profileChoice] ELSE "modern-slim"

profileConfig == PROFILE_LIBRARY[profileKey]

\* profileConfig.width * mm and profileConfig.depth * mm
ProfileWidth == profileConfig.width * UnitsPerMm
ProfileDepth == profileConfig.depth * UnitsPerMm

\* widthCm * 10 * mm - profileConfig.width * mm * 2
innerWidth == widthCm * 10 * UnitsPerMm - ProfileWidth * 2
innerHeight == heightCm * 10 * UnitsPerMm - ProfileWidth * 2

\* windowType === 1 ? innerWidth : innerWidth / windowType
sashWidth ==
    IF windowType = 1 THEN innerWidth ELSE innerWidth \div windowType

\* A sash centre measured from the left edge of its area instead of its middle.
baseSashXFromLeftEdge(index) ==
    IF windowType = 1 THEN 0
    ELSE -(innerWidth \div 2) + (index - 1) * sashWidth

\* The centre of the area of sash `index`.
baseSashX(index) ==
    IF windowType = 1 THEN 0
    ELSE -(innerWidth \div 2) + sashWidth \div 2 + (index - 1) * sashWidth

\* sashRotations[index] || 0
RotationAt(index) ==
    IF index \in 1..Len(sashRotations) THEN sashRotations[index] ELSE 0

\* A tilt hinge whose sash hangs below the pivot instead of standing on it.
KippHingeHanging(index) ==
    [hingeX |-> baseSashX(index), hingeY |-> -(innerHeight \div 2),
     sashOffsetX |-> 0, sashOffsetY |-> -(innerHeight \div 2),
     rotationAxis |-> <<RotationAt(index), 0, 0>>]

\* The hinge of a kipp sash, or of a hybrid sash in kipp mode.
KippHinge(index) ==
    [hingeX |-> baseSashX(index), hingeY |-> -(innerHeight \div 2),
     sashOffsetX |-> 0, sashOffsetY |-> innerHeight \div 2,
     rotationAxis |-> <<RotationAt(index), 0, 0>>]

\* The hinge of a sash turning about its left edge.
DrehLinksHinge(index) ==
    [hingeX |-> baseSashX(index) - sashWidth \div 2, hingeY |-> 0,
     sashOffsetX |-> sashWidth \div 2, sashOffsetY |-> 0,
     rotationAxis |-> <<0, RotationAt(index), 0>>]

\* The hinge of a sash turning about its right edge.
DrehRechtsHinge(index) ==
    [hingeX |-> baseSashX(index) + sashWidth \div 2, hingeY |-> 0,
     sashOffsetX |-> -(sashWidth \div 2), sashOffsetY |-> 0,
     rotationAxis |-> <<0, RotationAt(index), 0>>]

\* A fixed sash: centred, never rotated.
FixedHinge(index) ==
    [hingeX |-> baseSashX(index), hingeY |-> 0,
     sashOffsetX |-> 0, sashOffsetY |-> 0,
     rotationAxis |-> <<0, 0, 0>>]

\* A hinge switch that treats a hybrid sash as always being in dreh mode.
HingeIgnoringMode(index) ==
    LET type == OpeningType(index)
    IN  CASE type = "kipp" -> KippHinge(index)
          [] type \in {"dreh-links", "dreh-kipp-links"} -> DrehLinksHinge(index)
          [] type \in {"dreh-rechts", "dreh-kipp-rechts"} -> DrehRechtsHinge(index)
          [] OTHER -> FixedHinge(index)

\* The switch on openingType, lines 1234-1326.
Hinge(index) ==
    LET type == OpeningType(index)
        currentMode == ModeAt(sashModes, index)
    IN  CASE type = "kipp" -> KippHinge(index)
          [] type = "dreh-links" -> DrehLinksHinge(index)
          [] type = "dreh-rechts" -> DrehRechtsHinge(index)
          [] type = "dreh-kipp-links" ->
                IF currentMode = "kipp" THEN KippHinge(index)
                ELSE DrehLinksHinge(index)
          [] type = "dreh-kipp-rechts" ->
                IF currentMode = "kipp" THEN KippHinge(index)
                ELSE DrehRechtsHinge(index)
          [] OTHER -> FixedHinge(index)

\* The rule of the earlier version of pfostenNeeds (lines 165-168): only
\* kipp and the sashes hinged on the right need a mullion on their right.
LeftNeedsRightEarlier(type) ==
    type \in {"kipp", "dreh-rechts", "dreh-kipp-rechts"}

\* leftNeedsRight, lines 994-999.
LeftNeedsRight(type) ==
    \/ type = "fixed"
    \/ type = "kipp"
    \/ type = "dreh-rechts"
    \/ type = "dreh-kipp-links"
    \/ type = "dreh-kipp-rechts"

\* The rule with the turning side mistaken: dreh-rechts instead of dreh-links.
RightNeedsLeftMirrored(type) ==
    type \in {"fixed", "kipp", "dreh-rechts", "dreh-kipp-links", "dreh-kipp-rechts"}

\* rightNeedsLeft, lines 1002-1007.
RightNeedsLeft(type) ==
    \/ type = "fixed"
    \/ type = "kipp"
    \/ type = "dreh-links"
    \/ type = "dreh-kipp-links"
    \/ type = "dreh-kipp-rechts"

\* An override lookup that reads pfosten1 for every boundary.
ManualSettingAlwaysFirst(b) == pfosten1Choice

\* manualSetting of boundary b (code index b - 1): i === 0 ? pfosten1Choice : pfosten2Choice
ManualSetting(b) == IF b = 1 THEN pfosten1Choice ELSE pfosten2Choice

\* A loop bound that also visits the boundary after the last sash.
BoundaryCountOffByOne == windowType

\* The loop of pfostenNeeds runs for i < windowType - 1.
BoundaryCount == windowType - 1

\* needs[b - 1] as the loop body of lines 990-1023 computes it.
PfostenRequired(b) ==
    LET required == \/ LeftNeedsRight(OpeningType(b))
                    \/ RightNeedsLeft(OpeningType(b + 1))
        manualSetting == ManualSetting(b)
    IN  IF manualSetting = 1 THEN FALSE
        ELSE IF manualSetting = 2 THEN TRUE
        ELSE required

pfostenNeeds == [b \in 1..BoundaryCount |-> PfostenRequired(b)]

\* A boundary position measured on the outer width, as generateMullionPaths does.
PfostenXOnOuterWidth(b) ==
    LET w == widthCm * 10 * UnitsPerMm
    IN  -(w \div 2) + b * (w \div windowType)

\* xPos of boundary b: -innerWidth / 2 + sashWidth * (i + 1), lines 1043-1051.
PfostenX(b) ==
    -(innerWidth \div 2) + (innerWidth \div windowType) * b

\* The boundaries of `needs` from b on that are required, as their positions.
RECURSIVE RequiredPositions(_, _)
RequiredPositions(needs, b) ==
    IF b > Len(needs) THEN <<>>
    ELSE IF needs[b] THEN <<PfostenX(b)>> \o RequiredPositions(needs, b + 1)
    ELSE RequiredPositions(needs, b + 1)

\* pfostenPositions, lines 1039-1056: map to xPos or null, then drop the nulls.
pfostenPositions ==
    IF windowType = 1 THEN <<>> ELSE RequiredPositions(pfostenNeeds, 1)

----------------------------------------------------------------------------
(* Frame rings: profileSystem.ts createFrameFromProfile, createSashFrame,   *)
(* createCompleteFrame, and the placement transforms of Window.tsx.        *)
(* A segment is the prism of its cross-section, which spans                *)
(* [0, profileWidth] x [0, profileDepth], extruded along +Z over `length`. *)
(* Rotations are whole quarter turns and are written as such.              *)

segmentNames == <<"bottom", "top", "left", "right">>

Segment(edge, length, profileWidth, profileDepth) ==
    [edge |-> edge, length |-> length,
     profileWidth |-> profileWidth, profileDepth |-> profileDepth]

\* createFrameFromProfile: bottom, top, left, right, in the order pushed.
createFrameFromProfile(outerWidth, outerHeight, profileWidth, profileDepth) ==
    <<Segment("bottom", outerWidth - 2 * profileWidth, profileWidth, profileDepth),
      Segment("top", outerWidth - 2 * profileWidth, profileWidth, profileDepth),
      Segment("left", outerHeight, profileWidth, profileDepth),
      Segment("right", outerHeight, profileWidth, profileDepth)>>

SASH_CLEARANCE == SashClearanceMm * UnitsPerMm

\* A sash frame whose rails are shortened by the outer frame's profile width.
createSashFrameOuterProfile(outerWidth, outerHeight) ==
    LET sashProfileWidth == Pct(70, ProfileWidth)
        sashDepth == Pct(90, ProfileDepth)
        actualWidth == outerWidth - SASH_CLEARANCE
        actualHeight == outerHeight - SASH_CLEARANCE
    IN  <<Segment("bottom", actualWidth - 2 * ProfileWidth, sashProfileWidth, sashDepth),
          Segment("top", actualWidth - 2 * ProfileWidth, sashProfileWidth, sashDepth),
          Segment("left", actualHeight, sashProfileWidth, sashDepth),
          Segment("right", actualHeight, sashProfileWidth, sashDepth)>>

\* A sash frame cut to the nominal size of its area, with no clearance.
createSashFrameWithoutClearance(outerWidth, outerHeight) ==
    LET sashProfileWidth == Pct(70, ProfileWidth)
        sashDepth == Pct(90, ProfileDepth)
    IN  <<Segment("bottom", outerWidth - 2 * sashProfileWidth, sashProfileWidth, sashDepth),
          Segment("top", outerWidth - 2 * sashProfileWidth, sashProfileWidth, sashDepth),
          Segment("left", outerHeight, sashProfileWidth, sashDepth),
          Segment("right", outerHeight, sashProfileWidth, sashDepth)>>

\* createSashFrame with the component's profileConfig.
createSashFrame(outerWidth, outerHeight) ==
    LET sashProfileWidth == Pct(70, ProfileWidth)
        sashDepth == Pct(90, ProfileDepth)
        actualWidth == outerWidth - SASH_CLEARANCE
        actualHeight == outerHeight - SASH_CLEARANCE
    IN  <<Segment("bottom", actualWidth - 2 * sashProfileWidth, sashProfileWidth, sashDepth),
          Segment("top", actualWidth - 2 * sashProfileWidth, sashProfileWidth, sashDepth),
          Segment("left", actualHeight, sashProfileWidth, sashDepth),
          Segment("right", actualHeight, sashProfileWidth, sashDepth)>>

\* frameData = createCompleteFrame(widthCm * 10, heightCm * 10, windowType, profileConfig)
outerFrameSegments ==
    createFrameFromProfile(widthCm * 10 * UnitsPerMm, heightCm * 10 * UnitsPerMm,
                           ProfileWidth, ProfileDepth)

sashFrameSegments ==
    [i \in 1..windowType |->
        createSashFrame(IF windowType = 1 THEN innerWidth
                        ELSE innerWidth \div windowType,
                        innerHeight)]

\* Cosine and sine of k quarter turns.
QuarterCos(k) == CASE k % 4 = 0 -> 1 [] k % 4 = 2 -> -1 [] OTHER -> 0
QuarterSin(k) == CASE k % 4 = 1 -> 1 [] k % 4 = 3 -> -1 [] OTHER -> 0

RotateX(k, p) ==
    <<p[1],
      QuarterCos(k) * p[2] - QuarterSin(k) * p[3],
      QuarterSin(k) * p[2] + QuarterCos(k) * p[3]>>

RotateY(k, p) ==
    <<QuarterCos(k) * p[1] + QuarterSin(k) * p[3],
      p[2],
      QuarterCos(k) * p[3] - QuarterSin(k) * p[1]>>

RotateZ(k, p) ==
    <<QuarterCos(k) * p[1] - QuarterSin(k) * p[2],
      QuarterSin(k) * p[1] + QuarterCos(k) * p[2],
      p[3]>>

\* A mesh rotation in THREE.Euler's default order XYZ: the matrix Rx Ry Rz.
ApplyEuler(rotation, p) ==
    RotateX(rotation[1], RotateY(rotation[2], RotateZ(rotation[3], p)))

Transform(groupPosition, meshRotation, meshPosition) ==
    [groupPosition |-> groupPosition, meshRotation |-> meshRotation,
     meshPosition |-> meshPosition]

\* getFrameSegmentTransform, lines 703-760.
getFrameSegmentTransform(segment, w, h, d, pw) ==
    CASE segment = "bottom" ->
            Transform(<<-(w \div 2) + pw, -(h \div 2), -d>>, <<-1, 1, 2>>,
                      <<0, 0, d \div 2>>)
      [] segment = "top" ->
            Transform(<<-(w \div 2) + pw, h \div 2, -d>>, <<-1, -1, 2>>,
                      <<w - 2 * pw, 0, d \div 2>>)
      [] segment = "left" ->
            Transform(<<-(w \div 2), -(h \div 2), -d>>, <<1, 0, 0>>,
                      <<0, h, d \div 2>>)
      [] segment = "right" ->
            Transform(<<w \div 2, -(h \div 2) - h, -d>>, <<-1, 0, 2>>,
                      <<0, h, d \div 2>>)

\* A sash transform computed from the nominal size of the sash area.
getSashSegmentTransformNominal(segment, width, height, d, zOffset, spw) ==
    CASE segment = "bottom" ->
            Transform(<<-(width \div 2) + spw, -(height \div 2), zOffset>>, <<0, -1, 1>>,
                      <<width - 2 * spw, 0, d \div 2>>)
      [] segment = "top" ->
            Transform(<<-(width \div 2) + spw, height \div 2 - spw, zOffset>>, <<0, -1, 1>>,
                      <<width - 2 * spw, 0, d \div 2>>)
      [] segment = "left" ->
            Transform(<<-(width \div 2) + spw, -(height \div 2), zOffset>>, <<1, 0, 2>>,
                      <<0, height, d \div 2>>)
      [] segment = "right" ->
            Transform(<<width \div 2, -(height \div 2), zOffset>>, <<1, 0, 2>>,
                      <<0, height, d \div 2>>)

\* getSashSegmentTransform, lines 773-844.
getSashSegmentTransform(segment, width, height, d, zOffset, spw) ==
    LET aw == width - SASH_CLEARANCE
        ah == height - SASH_CLEARANCE
    IN  CASE segment = "bottom" ->
                Transform(<<-(aw \div 2) + spw, -(ah \div 2), zOffset>>, <<0, -1, 1>>,
                          <<aw - 2 * spw, 0, d \div 2>>)
          [] segment = "top" ->
                Transform(<<-(aw \div 2) + spw, ah \div 2 - spw, zOffset>>, <<0, -1, 1>>,
                          <<aw - 2 * spw, 0, d \div 2>>)
          [] segment = "left" ->
                Transform(<<-(aw \div 2) + spw, -(ah \div 2), zOffset>>, <<1, 0, 2>>,
                          <<0, ah, d \div 2>>)
          [] segment = "right" ->
                Transform(<<aw \div 2, -(ah \div 2), zOffset>>, <<1, 0, 2>>,
                          <<0, ah, d \div 2>>)

\* The depth handed to getSashSegmentTransform: profileConfig.depth * mm * 0.9
sashPlacementDepth == Pct(90, ProfileDepth)

\* Z offset of the sash frame: profileConfig.depth * mm * 0.15
sashZOffset == Pct(15, ProfileDepth)

\* The eight corners of a segment's prism before placement.
Corners(seg) ==
    {<<x, y, z>> : x \in {0, seg.profileWidth}, y \in {0, seg.profileDepth},
                   z \in {0, seg.length}}

\* <mesh rotation position> inside <group position>.
Place(t, p) ==
    LET q == ApplyEuler(t.meshRotation, p)
    IN  [k \in 1..3 |-> q[k] + t.meshPosition[k] + t.groupPosition[k]]

Least(S) == CHOOSE x \in S : \A y \in S : x <= y
Greatest(S) == CHOOSE x \in S : \A y \in S : x >= y

\* The box a placed segment occupies.
PlacedBox(seg, t) ==
    LET pts == {Place(t, c) : c \in Corners(seg)}
    IN  [k \in 1..3 |-> <<Least({q[k] : q \in pts}), Greatest({q[k] : q \in pts})>>]

\* The outer frame as rendered, lines 1174-1197.
OuterFrameBox(idx) ==
    PlacedBox(outerFrameSegments[idx],
              getFrameSegmentTransform(segmentNames[idx],
                  widthCm * 10 * UnitsPerMm, heightCm * 10 * UnitsPerMm,
                  ProfileDepth, ProfileWidth))

\* The frame of sash `index` as rendered inside the sash's group, lines 1336-1371.
SashFrameBox(index, segIdx) ==
    PlacedBox(sashFrameSegments[index][segIdx],
              getSashSegmentTransform(segmentNames[segIdx], sashWidth, innerHeight,
                  Pct(90, ProfileDepth), sashZOffset, Pct(70, ProfileWidth)))

----------------------------------------------------------------------------
(* Depth layout: profileSystem.ts calculateGlassZPosition,                 *)
(* calculateGlassFrontZPosition, createGlassPanes, and the overlays of     *)
(* OpeningVisualization.tsx.                                               *)

VizGlassThicknessMm == 24  \* calculateGlassFrontZPosition(profileConfig, 24)

\* const sashZOffset = -frameDepth * 0.15, inside calculateGlassZPosition.
GlassSashZOffset(depthMm) == -Pct(15, depthMm * UnitsPerMm)

\* const sashDepth = frameDepth * 0.6, inside calculateGlassZPosition.
GlassSashDepth(depthMm) == Pct(60, depthMm * UnitsPerMm)

\* glassZ = sashZOffset - sashDepth * 0.5 + thickness / 2
calculateGlassZPosition(depthMm, glassThicknessMm) ==
    GlassSashZOffset(depthMm) - GlassSashDepth(depthMm) \div 2
        + (glassThicknessMm * UnitsPerMm) \div 2

\* glassZ + thickness / 2
calculateGlassFrontZPosition(depthMm, glassThicknessMm) ==
    calculateGlassZPosition(depthMm, glassThicknessMm)
        + (glassThicknessMm * UnitsPerMm) \div 2

\* createGlassPanes: every pane is a box centred on Z = 0 and translated to glassZ.
GlassPaneZ(index) ==
    calculateGlassZPosition(profileConfig.depth, GlassThicknessMm)

\* glassGeometries = createGlassPanes(widthCm * 10, heightCm * 10, windowType,
\* profileConfig, 24, openingConfigs): one box per pane, narrower by the sash
\* profile on each side unless the sash is fixed.
glassGeometries ==
    [i \in 1..windowType |->
        LET isFixed == HasConfig(i) /\ ConfigType(i) = "fixed"
            sashFw == Pct(70, ProfileWidth)
        IN  [width |-> IF isFixed THEN sashWidth ELSE sashWidth - sashFw * 2,
             height |-> IF isFixed THEN innerHeight ELSE innerHeight - sashFw * 2,
             z |-> GlassPaneZ(i)]]

\* The prop handed to every OpeningVisualization of the sash.
glassFrontZ ==
    calculateGlassFrontZPosition(profileConfig.depth, VizGlassThicknessMm)

\* The overlay depth of an earlier OpeningVisualization: (3 * d) / 2 + d * 0.1
lineZFromFrameDepth(z) == (3 * ProfileDepth) \div 2 + Pct(10, ProfileDepth)

\* const lineZ = glassFrontZ, the Z of every line endpoint and button.
lineZ(z) == z

\* Z of the indicator lines and of the buttons of sash `index`.
LineEndpointZ(index) == lineZ(glassFrontZ)
ButtonZ(index) == lineZ(glassFrontZ)

----------------------------------------------------------------------------
(* The configuration reducer: windowReducer of the window context,         *)
(* src/unnamed/part_001 247-418, with the clamps of src/unnamed/part_003.  *)
(* Of a WindowConfiguration the model keeps width, height, depth (mm) and  *)
(* type; the other fields never reach the dimensions.                      *)

WINDOW_MIN_WIDTH == 400
WINDOW_MAX_WIDTH == 3000
WINDOW_MIN_HEIGHT == 400
WINDOW_MAX_HEIGHT == 3000
WINDOW_MIN_DEPTH == 50
WINDOW_MAX_DEPTH == 150

MathMax(a, b) == IF a >= b THEN a ELSE b
MathMin(a, b) == IF a <= b THEN a ELSE b

clampWidth(width) == MathMax(WINDOW_MIN_WIDTH, MathMin(WINDOW_MAX_WIDTH, width))
clampHeight(height) == MathMax(WINDOW_MIN_HEIGHT, MathMin(WINDOW_MAX_HEIGHT, height))
clampDepth(depth) == MathMax(WINDOW_MIN_DEPTH, MathMin(WINDOW_MAX_DEPTH, depth))

DEFAULT_WINDOW_CONFIG ==
    [type |-> "1-part", width |-> 1000, depth |-> 80, height |-> 1200]

\* Payloads a caller may dispatch: below, on, inside and above each range.
WidthPayloads == {50, 400, 1200, 3000, 3500}
HeightPayloads == {50, 1200, 3500}
DepthPayloads == {10, 80, 200}
TypePayloads == {"1-part", "2-part", "3-part"}
ConfigPayloads ==
    [type : {"2-part"}, width : {50, 1200}, depth : {80, 200},
     height : {1200, 3500}]

\* windowReducer(state, action); the cases that only touch fields outside
\* the model return the state with those fields replaced.
windowReducer(state, action) ==
    CASE action.type = "SET_DIMENSIONS" ->
            [state EXCEPT !.width = clampWidth(action.payload.width),
                          !.height = clampHeight(action.payload.height),
                          !.depth = clampDepth(action.payload.depth)]
      [] action.type = "SET_WIDTH" ->
            [state EXCEPT !.width = clampWidth(action.payload)]
      [] action.type = "SET_HEIGHT" ->
            [state EXCEPT !.height = clampHeight(action.payload)]
      [] action.type = "SET_DEPTH" ->
            [state EXCEPT !.depth = clampDepth(action.payload)]
      [] action.type = "SET_WINDOW_TYPE" ->
            [state EXCEPT !.type = action.payload]
      [] action.type = "SET_CONFIG" -> action.payload
      [] action.type = "RESET_TO_DEFAULTS" -> DEFAULT_WINDOW_CONFIG
      [] OTHER -> state

----------------------------------------------------------------------------
(* Initial states *)

DefaultSwitchReq == [i \in 1..MaxPanes |-> "none"]

\* The component after its first render: the arrays of useState([]) have been
\* grown to the pane count by the lazy initialisation.
InitSashState ==
    /\ sashOpenStates = [i \in 1..windowType |-> FALSE]
    /\ sashRotations = [i \in 1..windowType |-> 0]
    /\ sashModes = [i \in 1..windowType |-> "dreh"]
    /\ timers = <<>>
    /\ switchReq = DefaultSwitchReq

\* props.pfosten1 and props.pfosten2 are not set: both default to 0 (auto).
DefaultPfosten ==
    /\ pfosten1Choice = 0
    /\ pfosten2Choice = 0

\* useReducer(windowReducer, initialConfig = DEFAULT_WINDOW_CONFIG)
InitReducer ==
    /\ reducerState = DEFAULT_WINDOW_CONFIG
    /\ lastAction = [type |-> "none"]

InitHistory ==
    /\ nClicks = 0
    /\ lastClicked = 0
    /\ nTicks = 0
    /\ nProps = 0

Init ==
    /\ windowType \in 1..MaxPanes
    /\ sashChoice \in InitialSashChoices
    /\ profileChoice = 2
    /\ widthCm = 100
    /\ heightCm = 120
    /\ DefaultPfosten
    /\ InitSashState
    /\ InitHistory
    /\ InitReducer
    /\ fixedDelta = 0

----------------------------------------------------------------------------
(* Actions *)

\* A click on the main button of sash `index` (nothing clickable is rendered
\* for a fixed sash, so the click reaches no handler).
ClickMain(index) ==
    /\ nClicks < MaxClicks
    /\ HasConfig(index)
    /\ IF ButtonsRendered(index)
       THEN HandleSashOpenChange(index, ~MainButtonIsOpen(index), "dreh")
       ELSE UNCHANGED <<sashState, timers, switchReq>>
    /\ nClicks' = nClicks + 1
    /\ lastClicked' = index
    /\ UNCHANGED <<config, nTicks, nProps, fixedDelta, reducer>>

\* A click on the additional kipp button of a hybrid sash.
ClickKipp(index) ==
    /\ nClicks < MaxClicks
    /\ ButtonsRendered(index)
    /\ IsHybrid(index)
    /\ HandleSashOpenChange(index, ~KippButtonIsOpen(index), "kipp")
    /\ nClicks' = nClicks + 1
    /\ lastClicked' = index
    /\ UNCHANGED <<config, nTicks, nProps, fixedDelta, reducer>>

\* The oldest pending setTimeout callback runs.
TimerFire ==
    /\ timers # <<>>
    /\ ReopenCallback(Head(timers).index)
    /\ timers' = Tail(timers)
    /\ UNCHANGED <<config, sashRotations, sashModes, switchReq,
                   nClicks, lastClicked, nTicks, nProps, fixedDelta, reducer>>

\* One animation frame with frame time delta.
Tick(delta) ==
    /\ nTicks < MaxTicks
    /\ sashRotations' = FrameRotations(delta)
    /\ nTicks' = nTicks + 1
    /\ UNCHANGED <<config, sashOpenStates, sashModes, timers, switchReq,
                   nClicks, lastClicked, nProps, fixedDelta, reducer>>

\* props.windowType changes; the next render initialises the new sashes.
SetWindowType(n) ==
    /\ nProps < MaxProps
    /\ n # windowType
    /\ windowType' = n
    /\ sashRotations' = LazyInit(sashRotations, n, 0)
    /\ sashOpenStates' = LazyInit(sashOpenStates, n, FALSE)
    /\ sashModes' = LazyInit(sashModes, n, "dreh")
    /\ nProps' = nProps + 1
    /\ UNCHANGED <<sashChoice, profileChoice, widthCm, heightCm, pfosten, timers,
                   switchReq, nClicks, lastClicked, nTicks, fixedDelta, reducer>>

\* props.width changes.
SetWidth(w) ==
    /\ nProps < MaxProps
    /\ w # widthCm
    /\ widthCm' = w
    /\ nProps' = nProps + 1
    /\ UNCHANGED <<windowType, sashChoice, profileChoice, heightCm, pfosten, sashState,
                   timers, switchReq, nClicks, lastClicked, nTicks, fixedDelta, reducer>>

\* props.height changes.
SetHeight(h) ==
    /\ nProps < MaxProps
    /\ h # heightCm
    /\ heightCm' = h
    /\ nProps' = nProps + 1
    /\ UNCHANGED <<windowType, sashChoice, profileChoice, widthCm, pfosten, sashState,
                   timers, switchReq, nClicks, lastClicked, nTicks, fixedDelta, reducer>>

\* props.profile changes.
SetProfile(p) ==
    /\ nProps < MaxProps
    /\ p # profileChoice
    /\ profileChoice' = p
    /\ nProps' = nProps + 1
    /\ UNCHANGED <<windowType, sashChoice, widthCm, heightCm, pfosten, sashState,
                   timers, switchReq, nClicks, lastClicked, nTicks, fixedDelta, reducer>>

\* The interactive window: clicks, the reopen timer, animation frames and
\* pane-count changes.
Next ==
    \/ \E i \in 1..MaxPanes : ClickMain(i)
    \/ \E i \in 1..MaxPanes : ClickKipp(i)
    \/ TimerFire
    \/ \E d \in DeltaSet : Tick(d)
    \/ \E n \in 1..MaxPanes : SetWindowType(n)

Spec == Init /\ [][Next]_vars

\* The interactive window mounted with the default opening kinds and fewer
\* panes than the most it can be given later.
InitDefaultKinds ==
    /\ windowType \in 1..(MaxPanes - 1)
    /\ sashChoice = <<5, 6, 5>>
    /\ profileChoice = 2
    /\ widthCm = 100
    /\ heightCm = 120
    /\ DefaultPfosten
    /\ InitSashState
    /\ InitHistory
    /\ InitReducer
    /\ fixedDelta = 0

SpecDefaultKinds == InitDefaultKinds /\ [][Next]_vars

\* The same window whose host also changes width, height and profile.
NextProps ==
    \/ \E i \in 1..MaxPanes : ClickMain(i)
    \/ \E i \in 1..MaxPanes : ClickKipp(i)
    \/ TimerFire
    \/ \E d \in DeltaSet : Tick(d)
    \/ \E n \in 1..MaxPanes : SetWindowType(n)
    \/ \E w \in WidthChoices : SetWidth(w)
    \/ \E h \in HeightChoices : SetHeight(h)
    \/ \E p \in ProfileChoices : SetProfile(p)

SpecProps == Init /\ [][NextProps]_vars

\* The same window while its host leaves every prop alone.
NextMounted ==
    \/ \E i \in 1..MaxPanes : ClickMain(i)
    \/ \E i \in 1..MaxPanes : ClickKipp(i)
    \/ TimerFire
    \/ \E d \in DeltaSet : Tick(d)

SpecMounted == Init /\ [][NextMounted]_vars

----------------------------------------------------------------------------
(* A sash animating at a fixed frame rate *)

\* A one-pane window whose sash has just been toggled open (angle 0) in either
\* mode, rendered at one fixed frame time.
InitKin ==
    /\ windowType = 1
    /\ sashChoice \in {<<c, 6, 5>> : c \in OpeningChoices}
    /\ profileChoice = 2
    /\ widthCm = 100
    /\ heightCm = 120
    /\ DefaultPfosten
    /\ sashOpenStates = <<TRUE>>
    /\ sashRotations = <<0>>
    /\ sashModes \in {<<m>> : m \in Modes}
    /\ timers = <<>>
    /\ switchReq = DefaultSwitchReq
    /\ InitHistory
    /\ InitReducer
    /\ fixedDelta \in DeltaSet

\* One animation frame at the fixed frame time.
KinTick ==
    /\ nTicks < MaxKinTicks
    /\ sashRotations' = FrameRotations(fixedDelta)
    /\ nTicks' = nTicks + 1
    /\ UNCHANGED <<config, sashOpenStates, sashModes, timers, switchReq,
                   nClicks, lastClicked, nProps, fixedDelta, reducer>>

NextKin == KinTick

SpecKin == InitKin /\ [][NextKin]_vars

----------------------------------------------------------------------------
(* The interactive window under the render loop's scheduling *)

\* One animation frame; frames keep coming as long as the component is mounted.
LiveTick(delta) ==
    /\ sashRotations' = FrameRotations(delta)
    /\ UNCHANGED <<config, sashOpenStates, sashModes, timers, switchReq,
                   nClicks, lastClicked, nTicks, nProps, fixedDelta, reducer>>

AnyLiveTick == \E d \in DeltaSet : LiveTick(d)

InitLive ==
    /\ windowType = 1
    /\ sashChoice \in {<<5, 6, 5>>, <<6, 5, 5>>}
    /\ profileChoice = 2
    /\ widthCm = 100
    /\ heightCm = 120
    /\ DefaultPfosten
    /\ InitSashState
    /\ InitHistory
    /\ InitReducer
    /\ fixedDelta = 0

NextLive ==
    \/ \E i \in 1..MaxPanes : ClickMain(i)
    \/ \E i \in 1..MaxPanes : ClickKipp(i)
    \/ TimerFire
    \/ AnyLiveTick

\* Every frame request is eventually served and every due timer eventually runs.
SpecLive ==
    InitLive /\ [][NextLive]_vars /\ WF_vars(TimerFire) /\ WF_vars(AnyLiveTick)

----------------------------------------------------------------------------
(* The window as its host configures it *)

PfostenChoices == 0..2
LibraryProfileChoices == 1..5

\* props.sash<i>Opening changes.
SetSashOpening(i, c) ==
    /\ nProps < MaxProps
    /\ c # sashChoice[i]
    /\ sashChoice' = [sashChoice EXCEPT ![i] = c]
    /\ nProps' = nProps + 1
    /\ UNCHANGED <<windowType, profileChoice, widthCm, heightCm, pfosten,
                   sashState, timers, switchReq, nClicks, lastClicked, nTicks,
                   fixedDelta, reducer>>

\* props.pfosten1 or props.pfosten2 changes.
SetPfosten(b, v) ==
    /\ nProps < MaxProps
    /\ v # ManualSetting(b)
    /\ pfosten1Choice' = IF b = 1 THEN v ELSE pfosten1Choice
    /\ pfosten2Choice' = IF b = 2 THEN v ELSE pfosten2Choice
    /\ nProps' = nProps + 1
    /\ UNCHANGED <<windowType, sashChoice, profileChoice, widthCm, heightCm,
                   sashState, timers, switchReq, nClicks, lastClicked, nTicks,
                   fixedDelta, reducer>>

\* A window mounted with any pane count, opening kinds, mullion overrides and
\* profile, at the default size.
InitGeom ==
    /\ windowType \in 1..MaxPanes
    /\ sashChoice \in [1..MaxPanes -> OpeningChoices]
    /\ profileChoice \in LibraryProfileChoices
    /\ widthCm = 100
    /\ heightCm = 120
    /\ pfosten1Choice \in PfostenChoices
    /\ pfosten2Choice \in PfostenChoices
    /\ InitSashState
    /\ InitHistory
    /\ InitReducer
    /\ fixedDelta = 0

NextGeom ==
    \/ \E n \in 1..MaxPanes : SetWindowType(n)
    \/ \E w \in WidthChoices : SetWidth(w)
    \/ \E h \in HeightChoices : SetHeight(h)
    \/ \E p \in LibraryProfileChoices : SetProfile(p)
    \/ \E i \in 1..MaxPanes : \E c \in OpeningChoices : SetSashOpening(i, c)
    \/ \E b \in 1..2 : \E v \in PfostenChoices : SetPfosten(b, v)

SpecGeom == InitGeom /\ [][NextGeom]_vars

\* The window as its host sizes it: mounted with any pane count and profile,
\* then given another pane count, size, profile or opening kind.
InitRing ==
    /\ windowType \in 1..MaxPanes
    /\ sashChoice \in InitialSashChoices
    /\ profileChoice \in LibraryProfileChoices
    /\ widthCm = 100
    /\ heightCm = 120
    /\ DefaultPfosten
    /\ InitSashState
    /\ InitHistory
    /\ InitReducer
    /\ fixedDelta = 0

NextRing ==
    \/ \E n \in 1..MaxPanes : SetWindowType(n)
    \/ \E w \in WidthChoices : SetWidth(w)
    \/ \E h \in HeightChoices : SetHeight(h)
    \/ \E p \in LibraryProfileChoices : SetProfile(p)
    \/ \E i \in 1..MaxPanes : \E c \in OpeningChoices : SetSashOpening(i, c)

SpecRing == InitRing /\ [][NextRing]_vars

----------------------------------------------------------------------------
(* The selector props as the strings the host hands over, Window.tsx 867-886 *)

\* Selector strings a host may pass; "" stands for a prop that is missing or
\* empty (both are falsy, so the default of the prop applies).
PropStrings == {"", "abc", "-1", "0", "1", "2", "3", "4", "5", "6", "7", "2px"}

\* The value of parseInt for a string without a leading integer.  Used as an
\* index it selects no element of any array, as NaN does.
NaN == -999

\* parseInt(s): the leading integer of s, or NaN.
parseInt(s) ==
    CASE s = "-1" -> -1
      [] s = "0" -> 0
      [] s = "1" -> 1
      [] s = "2" -> 2
      [] s = "3" -> 3
      [] s = "4" -> 4
      [] s = "5" -> 5
      [] s = "6" -> 6
      [] s = "7" -> 7
      [] s = "2px" -> 2
      [] OTHER -> NaN

\* props.profile ? parseInt(props.profile) : 2
profileChoiceOf(prop) == IF prop = "" THEN 2 ELSE parseInt(prop)

\* props.sash<i>Opening ? parseInt(props.sash<i>Opening) : 5, 6, 5
sashOpeningChoiceOf(i, prop) ==
    IF prop = "" THEN <<5, 6, 5>>[i] ELSE parseInt(prop)

\* props.profile changes to the string `prop`.
SetProfileProp(prop) ==
    /\ nProps < MaxProps
    /\ profileChoiceOf(prop) # profileChoice
    /\ profileChoice' = profileChoiceOf(prop)
    /\ nProps' = nProps + 1
    /\ UNCHANGED <<windowType, sashChoice, widthCm, heightCm, pfosten, sashState,
                   timers, switchReq, nClicks, lastClicked, nTicks, fixedDelta, reducer>>

\* props.sash<i>Opening changes to the string `prop`.
SetSashOpeningProp(i, prop) ==
    /\ nProps < MaxProps
    /\ sashOpeningChoiceOf(i, prop) # sashChoice[i]
    /\ sashChoice' = [sashChoice EXCEPT ![i] = sashOpeningChoiceOf(i, prop)]
    /\ nProps' = nProps + 1
    /\ UNCHANGED <<windowType, profileChoice, widthCm, heightCm, pfosten,
                   sashState, timers, switchReq, nClicks, lastClicked, nTicks,
                   fixedDelta, reducer>>

\* A window mounted with any pane count and any profile string, and without
\* sash opening props.
InitParse ==
    /\ windowType \in 1..MaxPanes
    /\ sashChoice = [i \in 1..MaxPanes |-> sashOpeningChoiceOf(i, "")]
    /\ profileChoice \in {profileChoiceOf(s) : s \in PropStrings}
    /\ widthCm = 100
    /\ heightCm = 120
    /\ DefaultPfosten
    /\ InitSashState
    /\ InitHistory
    /\ InitReducer
    /\ fixedDelta = 0

NextParse ==
    \/ \E n \in 1..MaxPanes : SetWindowType(n)
    \/ \E s \in PropStrings : SetProfileProp(s)
    \/ \E i \in 1..MaxPanes : \E s \in PropStrings : SetSashOpeningProp(i, s)

SpecParse == InitParse /\ [][NextParse]_vars

----------------------------------------------------------------------------

(* The window at sizes its host is free to pass: props.width is not validated *)

\* Widths in cm, from narrower than two frame profiles to the default.
AnyWidthChoices == {10, 30, 100}

\* A window mounted at the default size with any pane count and library
\* profile, then resized or reconfigured by its host.
InitSized ==
    /\ windowType \in 1..MaxPanes
    /\ sashChoice \in InitialSashChoices
    /\ profileChoice \in LibraryProfileChoices
    /\ widthCm = 100
    /\ heightCm = 120
    /\ DefaultPfosten
    /\ InitSashState
    /\ InitHistory
    /\ InitReducer
    /\ fixedDelta = 0

NextSized ==
    \/ \E n \in 1..MaxPanes : SetWindowType(n)
    \/ \E w \in AnyWidthChoices : SetWidth(w)
    \/ \E h \in HeightChoices : SetHeight(h)
    \/ \E p \in LibraryProfileChoices : SetProfile(p)

SpecSized == InitSized /\ [][NextSized]_vars

----------------------------------------------------------------------------

(* The window context: actions dispatched to the reducer *)

\* dispatch(action)
Dispatch(action) ==
    /\ reducerState' = windowReducer(reducerState, action)
    /\ lastAction' = action
    /\ UNCHANGED <<config, sashState, timers, switchReq, nClicks, lastClicked,
                   nTicks, nProps, fixedDelta>>

InitContext ==
    /\ windowType = 1
    /\ sashChoice = <<5, 6, 5>>
    /\ profileChoice = 2
    /\ widthCm = 100
    /\ heightCm = 120
    /\ DefaultPfosten
    /\ InitSashState
    /\ InitHistory
    /\ InitReducer
    /\ fixedDelta = 0

NextContext ==
    \/ \E w \in WidthPayloads : \E h \in HeightPayloads : \E d \in DepthPayloads :
           Dispatch([type |-> "SET_DIMENSIONS",
                     payload |-> [width |-> w, depth |-> d, height |-> h]])
    \/ \E w \in WidthPayloads : Dispatch([type |-> "SET_WIDTH", payload |-> w])
    \/ \E h \in HeightPayloads : Dispatch([type |-> "SET_HEIGHT", payload |-> h])
    \/ \E d \in DepthPayloads : Dispatch([type |-> "SET_DEPTH", payload |-> d])
    \/ \E t \in TypePayloads : Dispatch([type |-> "SET_WINDOW_TYPE", payload |-> t])
    \/ \E c \in ConfigPayloads : Dispatch([type |-> "SET_CONFIG", payload |-> c])
    \/ Dispatch([type |-> "RESET_TO_DEFAULTS"])

SpecContext == InitContext /\ [][NextContext]_vars

----------------------------------------------------------------------------
(* Claims about the sash state machine *)

SashIndices == 1..Len(sashRotations)

\* A step that handled a button click on sash i.
ClickedStep(i) == nClicks' = nClicks + 1 /\ lastClicked' = i

\* A step that ran a setTimeout reopen callback.
TimerStep == Len(timers') < Len(timers)

\* A step that ran one animation frame.
FrameStep == nTicks' = nTicks + 1

\* C1: the mode of a hybrid sash changes only with that sash at angle 0: no
\* step gives a hybrid sash a new mode while leaving its angle non-zero, so
\* the new mode's pivot, axis and target are never active at a non-zero angle.
C1_ModeChangesOnlyAtZero ==
    [][\A i \in SashIndices :
          (IsHybrid(i) /\ sashModes'[i] # sashModes[i])
              => sashRotations'[i] = 0]_vars

\* C2: a toggle that arrives for a sash while its deferred reopen is pending
\* supersedes the reopen: when the superseded callback's moment comes, the
\* sash keeps the isOpen and mode the later toggle set.
C2_ToggleSupersedesReopen ==
    [][(TimerStep /\ Head(timers).superseded)
          => /\ sashOpenStates' = sashOpenStates
             /\ sashModes' = sashModes]_vars

\* x lies between lo and hi, whichever is larger.
Between(lo, x, hi) == (lo <= x /\ x <= hi) \/ (hi <= x /\ x <= lo)

\* C3: in every animation frame the new angle of every sash lies between its
\* previous angle and its target: no overshoot, no move away from the target.
C3_TickNeverOvershoots ==
    [][FrameStep =>
          \A i \in SashIndices :
              Between(sashRotations[i], sashRotations'[i], TargetOrZero(i))]_vars

\* C6: the deferred reopen turns isOpen from false to true only when the
\* angle of that sash is 0.
C6_ReopenOnlyAtZero ==
    [][(TimerStep /\ ~sashOpenStates[Head(timers).index]
                  /\ sashOpenStates'[Head(timers).index])
          => sashRotations[Head(timers).index] = 0]_vars

\* C4: from angle 0, with a non-zero target and a fixed frame time, the angle
\* is exactly the target after a bounded number of frames (ConvergenceTicks)
\* and on every frame after that.
C4_ConvergesAndStays ==
    (nTicks >= ConvergenceTicks /\ TargetRotation(1) # 0)
        => sashRotations[1] = TargetRotation(1)

\* The target the claims name for a hybrid sash opened in mode m.
RequestedTarget(i, m) ==
    IF m = "kipp" THEN PiOver16
    ELSE IF OpeningType(i) = "dreh-kipp-links" THEN -Pi06 ELSE Pi06

\* C5: after a mode switch on an open hybrid sash, unless another toggle
\* arrives for that sash, the sash is eventually open in the requested mode
\* with its angle equal to that mode's target.
C5_SwitchEventuallyOpens ==
    \A i \in 1..MaxPanes : \A m \in Modes :
        (switchReq[i] = m /\ IsHybrid(i))
            ~> (\/ switchReq[i] # m
                \/ /\ sashOpenStates[i]
                   /\ sashModes[i] = m
                   /\ sashRotations[i] = RequestedTarget(i, m))

AllSashesDefault(opens, rotations, modes) ==
    /\ \A i \in 1..Len(opens) : ~opens[i]
    /\ \A i \in 1..Len(rotations) : rotations[i] = 0
    /\ \A i \in 1..Len(modes) : modes[i] = "dreh"

\* C8: every pane-count change resets every sash to closed, angle 0, mode
\* dreh; changes of width, height or profile leave the sash states untouched.
C8_PaneCountChangeResets ==
    [][/\ (windowType' # windowType)
            => AllSashesDefault(sashOpenStates', sashRotations', sashModes')
       /\ (<<widthCm, heightCm, profileChoice>>' # <<widthCm, heightCm, profileChoice>>)
            => UNCHANGED <<sashOpenStates, sashRotations, sashModes>>]_vars

\* The step leaves the arrays' lengths and every sash other than i as they were.
OthersUnchanged(i) ==
    /\ Len(sashOpenStates') = Len(sashOpenStates)
    /\ Len(sashRotations') = Len(sashRotations)
    /\ Len(sashModes') = Len(sashModes)
    /\ \A j \in SashIndices \ {i} :
           /\ sashOpenStates'[j] = sashOpenStates[j]
           /\ sashRotations'[j] = sashRotations[j]
           /\ sashModes'[j] = sashModes[j]

\* C9: a click on sash i, and the deferred reopen of sash i, leave isOpen,
\* mode and angle of every other sash unchanged.
C9_ToggleTouchesOneSash ==
    [][/\ \A i \in 1..MaxPanes : ClickedStep(i) => OthersUnchanged(i)
       /\ TimerStep => OthersUnchanged(Head(timers).index)]_vars

\* A deferred reopen of one sash is pending, that sash was clicked last, and
\* another sash stands open in kipp mode at a non-zero angle.
C9_Witness ==
    \E i, j \in SashIndices :
        /\ i # j
        /\ lastClicked = i
        /\ \E k \in 1..Len(timers) : timers[k].index = i
        /\ sashOpenStates[j]
        /\ sashModes[j] = "kipp"
        /\ sashRotations[j] # 0

\* The target angle as a table of open flag, opening kind and mode.
ClaimedTarget(isOpen, kind, mode) ==
    IF ~isOpen \/ kind = "fixed" THEN 0
    ELSE IF kind = "kipp" THEN PiOver16
    ELSE IF kind = "dreh-links" THEN -Pi06
    ELSE IF kind = "dreh-rechts" THEN Pi06
    ELSE IF mode = "kipp" THEN PiOver16
    ELSE IF kind = "dreh-kipp-links" THEN -Pi06
    ELSE Pi06

----------------------------------------------------------------------------
(* Claims about the derived geometry *)

\* The left and right edge of the area of sash i: the inner width divided
\* evenly among the panes, counted from the left inner edge of the frame.
SashAreaLeft(i) == ((i - 1) * innerWidth) \div windowType - innerWidth \div 2
SashAreaRight(i) == (i * innerWidth) \div windowType - innerWidth \div 2

\* The pivot and rotation the claim gives for a sash of the kind and mode.
ClaimedHinge(i, kind, mode, angle) ==
    IF kind = "kipp" \/ (kind \in {"dreh-kipp-links", "dreh-kipp-rechts"} /\ mode = "kipp")
    THEN [x |-> (SashAreaLeft(i) + SashAreaRight(i)) \div 2,
          y |-> -(innerHeight \div 2), rotation |-> <<angle, 0, 0>>]
    ELSE IF kind \in {"dreh-links", "dreh-kipp-links"}
    THEN [x |-> SashAreaLeft(i), y |-> 0, rotation |-> <<0, angle, 0>>]
    ELSE IF kind \in {"dreh-rechts", "dreh-kipp-rechts"}
    THEN [x |-> SashAreaRight(i), y |-> 0, rotation |-> <<0, angle, 0>>]
    ELSE [x |-> Hinge(i).hingeX, y |-> Hinge(i).hingeY, rotation |-> <<0, 0, 0>>]

\* C11: the hinge pivot and the rotation axis of every rendered sash are
\* those of its kind and mode: bottom-centre and X for kipp, left edge and Y
\* for dreh-links, right edge and Y for dreh-rechts, hybrids by their mode,
\* and no rotation at all for a fixed sash.
C11_HingeByKindAndMode ==
    \A i \in 1..windowType :
        LET hinge == Hinge(i)
            claimed == ClaimedHinge(i, OpeningType(i), ModeAt(sashModes, i),
                                    RotationAt(i))
        IN  /\ hinge.hingeX = claimed.x
            /\ hinge.hingeY = claimed.y
            /\ hinge.rotationAxis = claimed.rotation

\* A window of several panes shows a hybrid sash turned in kipp mode next to
\* a sash turned about a side hinge.
C11_Witness ==
    /\ windowType > 1
    /\ \E i \in 1..windowType :
           IsHybrid(i) /\ ModeAt(sashModes, i) = "kipp" /\ RotationAt(i) # 0
    /\ \E i \in 1..windowType :
           /\ OpeningType(i) # "fixed"
           /\ ModeAt(sashModes, i) = "dreh"
           /\ RotationAt(i) # 0

\* Kinds that need support on their right side, and on their left side.
NeedsSupportOnRight ==
    {"fixed", "kipp", "dreh-kipp-links", "dreh-kipp-rechts", "dreh-rechts"}
NeedsSupportOnLeft ==
    {"fixed", "kipp", "dreh-kipp-links", "dreh-kipp-rechts", "dreh-links"}

\* C12: with no manual override, a mullion is required at a boundary exactly
\* when the left sash needs support on its right side or the right sash needs
\* support on its left side; two adjacent dreh-kipp-links sashes require one.
C12_MullionRule ==
    \A b \in 1..(windowType - 1) :
        ManualSetting(b) = 0 =>
            /\ pfostenNeeds[b] <=>
                   \/ OpeningType(b) \in NeedsSupportOnRight
                   \/ OpeningType(b + 1) \in NeedsSupportOnLeft
            /\ (OpeningType(b) = "dreh-kipp-links"
                   /\ OpeningType(b + 1) = "dreh-kipp-links") => pfostenNeeds[b]

\* Three panes with no override, reached by a prop change, whose first two
\* sashes are dreh-kipp-links: their boundary gets a mullion.
C12_Witness ==
    /\ windowType = 3
    /\ pfosten1Choice = 0 /\ pfosten2Choice = 0
    /\ nProps > 0
    /\ OpeningType(1) = "dreh-kipp-links" /\ OpeningType(2) = "dreh-kipp-links"
    /\ pfostenNeeds[1]

\* C13 as stated: between a dreh-rechts sash on the left and a dreh-links sash
\* on the right no mullion is required unless the override is yes.
C13_TurnRightTurnLeftNoMullion ==
    \A b \in 1..(windowType - 1) :
        (OpeningType(b) = "dreh-rechts" /\ OpeningType(b + 1) = "dreh-links"
            /\ ManualSetting(b) # 2) => ~pfostenNeeds[b]

\* C13 amended: between a dreh-links sash on the left and a dreh-rechts sash
\* on the right (both hinged away from the shared boundary) no mullion is
\* required unless the override is yes; between dreh-rechts on the left and
\* dreh-links on the right (both hinged on the shared boundary) a mullion is
\* required unless the override is no.
C13_HingedAwayNoMullion ==
    \A b \in 1..(windowType - 1) :
        /\ (OpeningType(b) = "dreh-links" /\ OpeningType(b + 1) = "dreh-rechts"
               /\ ManualSetting(b) # 2) => ~pfostenNeeds[b]
        /\ (OpeningType(b) = "dreh-rechts" /\ OpeningType(b + 1) = "dreh-links"
               /\ ManualSetting(b) # 1) => pfostenNeeds[b]

\* Both pairs stand side by side with no override: dreh-links, dreh-rechts,
\* dreh-links.
C13_Witness ==
    /\ windowType = 3
    /\ pfosten1Choice = 0 /\ pfosten2Choice = 0
    /\ OpeningType(1) = "dreh-links"
    /\ OpeningType(2) = "dreh-rechts"
    /\ OpeningType(3) = "dreh-links"
    /\ pfostenNeeds = <<FALSE, TRUE>>

\* C14: override no gives not required, override yes gives required, auto
\* keeps the value computed from the opening kinds; the first boundary reads
\* pfosten1 and the second reads pfosten2.
C14_ManualOverride ==
    \A b \in 1..(windowType - 1) :
        LET setting == <<pfosten1Choice, pfosten2Choice>>[b]
        IN  /\ setting = 1 => ~pfostenNeeds[b]
            /\ setting = 2 => pfostenNeeds[b]
            /\ setting = 0 =>
                   (pfostenNeeds[b] <=>
                       \/ LeftNeedsRight(OpeningType(b))
                       \/ RightNeedsLeft(OpeningType(b + 1)))

\* Three panes whose overrides differ and both go against the computed value:
\* yes on a boundary that needs none, no on a boundary that needs one.
C14_Witness ==
    /\ windowType = 3
    /\ pfosten1Choice = 2 /\ pfosten2Choice = 1
    /\ OpeningType(1) = "dreh-links" /\ OpeningType(2) = "dreh-rechts"
    /\ OpeningType(3) = "fixed"
    /\ pfostenNeeds = <<TRUE, FALSE>>

\* The required boundaries, in order, as the x of the claim's formula.
RECURSIVE ClaimedPositions(_)
ClaimedPositions(b) ==
    IF b > windowType - 1 THEN <<>>
    ELSE IF pfostenNeeds[b]
         THEN <<(b * innerWidth) \div windowType - innerWidth \div 2>>
                  \o ClaimedPositions(b + 1)
         ELSE ClaimedPositions(b + 1)

\* C15: every required mullion sits at x = -innerWidth/2 + (i+1) innerWidth/n
\* of its own boundary, which is the shared edge of the two sash areas; a
\* boundary that needs no mullion does not shift a later one.
C15_MullionPositions ==
    /\ pfostenPositions = ClaimedPositions(1)
    /\ \A b \in 1..(windowType - 1) :
           /\ PfostenX(b) = baseSashX(b) + sashWidth \div 2
           /\ PfostenX(b) = baseSashX(b + 1) - sashWidth \div 2

\* Three panes where only the second boundary gets a mullion.
C15_Witness ==
    /\ windowType = 3
    /\ pfostenNeeds = <<FALSE, TRUE>>
    /\ Len(pfostenPositions) = 1
    /\ pfostenPositions[1] > 0

\* C16: 1000 x 1200 mm, profile 60/70, two panes, dreh-kipp-links and
\* dreh-kipp-rechts, no override: exactly one mullion, at x = 0.  One pane:
\* no mullion.  Never more than paneCount - 1 mullions.
C16_EndToEndMullion ==
    /\ (widthCm = 100 /\ heightCm = 120 /\ profileConfig = [width |-> 60, depth |-> 70]
          /\ windowType = 2 /\ OpeningType(1) = "dreh-kipp-links"
          /\ OpeningType(2) = "dreh-kipp-rechts" /\ pfosten1Choice = 0)
        => pfostenPositions = <<0>>
    /\ windowType = 1 => pfostenPositions = <<>>
    /\ Len(pfostenPositions) <= windowType - 1

\* The window of the example, reached by a prop change.
C16_Witness ==
    /\ widthCm = 100 /\ heightCm = 120 /\ profileChoice = 2
    /\ windowType = 2 /\ sashChoice[1] = 5 /\ sashChoice[2] = 6
    /\ pfosten1Choice = 0 /\ pfosten2Choice = 0
    /\ nProps > 0
    /\ pfostenPositions = <<0>>

\* The segments of a ring of the given size and profile width, as the claim
\* describes them.
ClaimedRing(ringWidth, ringHeight, profileWidth) ==
    <<[edge |-> "bottom", length |-> ringWidth - 2 * profileWidth],
      [edge |-> "top", length |-> ringWidth - 2 * profileWidth],
      [edge |-> "left", length |-> ringHeight],
      [edge |-> "right", length |-> ringHeight]>>

\* The edge and the length of every segment of a ring.
EdgesAndLengths(ring) ==
    [k \in 1..Len(ring) |-> [edge |-> ring[k].edge, length |-> ring[k].length]]

\* C17: every frame ring has exactly 4 segments in the order bottom, top,
\* left, right; the horizontal ones are ringWidth - 2 profileWidth long and the
\* vertical ones ringHeight; a sash ring is the sash area less the 3 mm
\* clearance and its profile width is 0.7 of the outer profile width.
C17_RingSegments ==
    /\ EdgesAndLengths(outerFrameSegments) =
           ClaimedRing(widthCm * 10 * UnitsPerMm, heightCm * 10 * UnitsPerMm,
                       profileConfig.width * UnitsPerMm)
    /\ \A i \in 1..windowType :
           /\ EdgesAndLengths(sashFrameSegments[i]) =
                  ClaimedRing(SashAreaRight(i) - SashAreaLeft(i) - 3 * UnitsPerMm,
                              innerHeight - 3 * UnitsPerMm,
                              (7 * profileConfig.width * UnitsPerMm) \div 10)
           /\ \A k \in 1..4 :
                  sashFrameSegments[i][k].profileWidth =
                      (7 * profileConfig.width * UnitsPerMm) \div 10

\* A three-pane window with a profile other than the default one.
C17_Witness ==
    /\ windowType = 3
    /\ profileKey = "traditional"
    /\ nProps > 0
    /\ Len(sashFrameSegments) = 3
    /\ sashFrameSegments[3][1].length < sashFrameSegments[3][3].length

\* The box of each edge of the border of thickness pw of the rectangle
\* [-w/2, w/2] x [-h/2, h/2]: the horizontal edges fit between the vertical
\* ones, which run the full height.
BorderBox(edge, w, h, pw) ==
    CASE edge = "bottom" -> <<<<pw - w \div 2, w \div 2 - pw>>, <<-(h \div 2), pw - h \div 2>>>>
      [] edge = "top" -> <<<<pw - w \div 2, w \div 2 - pw>>, <<h \div 2 - pw, h \div 2>>>>
      [] edge = "left" -> <<<<-(w \div 2), pw - w \div 2>>, <<-(h \div 2), h \div 2>>>>
      [] edge = "right" -> <<<<w \div 2 - pw, w \div 2>>, <<-(h \div 2), h \div 2>>>>

\* C18: in the outer frame and in every rendered sash ring the placed
\* segments are exactly the four edges of the ring's border: each end of a
\* horizontal segment lies on the inner face of the vertical segment next to
\* it, with neither gap nor overlap.
C18_CornerJoints ==
    /\ \A k \in 1..4 :
           <<OuterFrameBox(k)[1], OuterFrameBox(k)[2]>> =
               BorderBox(segmentNames[k], widthCm * 10 * UnitsPerMm,
                         heightCm * 10 * UnitsPerMm, ProfileWidth)
    /\ \A i \in 1..windowType : OpeningType(i) # "fixed" =>
           \A k \in 1..4 :
               <<SashFrameBox(i, k)[1], SashFrameBox(i, k)[2]>> =
                   BorderBox(segmentNames[k], sashWidth - SASH_CLEARANCE,
                             innerHeight - SASH_CLEARANCE, Pct(70, ProfileWidth))

\* A window of several panes with an operable sash, resized by its host.
C18_Witness ==
    /\ windowType > 1
    /\ widthCm = 150
    /\ nProps > 0
    /\ \E i \in 1..windowType : OpeningType(i) # "fixed"
    /\ OuterFrameBox(4)[1][2] = 750 * UnitsPerMm

\* C19: for every profile of the library, the indicator lines and the buttons
\* of every sash that shows them lie at Z = glassFrontZ, and glassFrontZ is
\* half the glazing thickness in front of the Z on which the glass pane of
\* the same sash is centred.
C19_OverlaysOnGlassFront ==
    \A i \in 1..windowType : ButtonsRendered(i) =>
        /\ LineEndpointZ(i) = glassFrontZ
        /\ ButtonZ(i) = glassFrontZ
        /\ glassFrontZ = GlassPaneZ(i) + (GlassThicknessMm * UnitsPerMm) \div 2

\* A window with the deepest profile of the library and an operable sash.
C19_Witness ==
    /\ profileKey = "traditional"
    /\ nProps > 0
    /\ \E i \in 1..windowType : ButtonsRendered(i) /\ LineEndpointZ(i) < 0

\* C20: the sash closed offset is one shared value 0.15 profileDepth, inside
\* the frame depth: the offset glassZ is derived from is the offset, sign
\* included, at which the sash ring is placed, and
\* glassZ = offset - sashDepth/2 + glassThickness/2.
C20_SharedSashOffset ==
    /\ sashZOffset = (15 * ProfileDepth) \div 100
    /\ 0 < sashZOffset /\ sashZOffset < ProfileDepth
    /\ GlassSashZOffset(profileConfig.depth) = sashZOffset
    /\ \A i \in 1..windowType :
           GlassPaneZ(i) = sashZOffset - GlassSashDepth(profileConfig.depth) \div 2
                              + (GlassThicknessMm * UnitsPerMm) \div 2

\* C21: for every library profile, the sash depth that centres the glass
\* (0.6 of the profile depth) is the depth of the profile of every segment
\* of the assembled sash ring and the depth handed to the placement of the
\* sash segments.
C21_SashDepthAgrees ==
    /\ GlassSashDepth(profileConfig.depth) = (60 * ProfileDepth) \div 100
    /\ GlassSashDepth(profileConfig.depth) = sashPlacementDepth
    /\ \A i \in 1..windowType : \A k \in 1..4 :
           sashFrameSegments[i][k].profileDepth = GlassSashDepth(profileConfig.depth)

----------------------------------------------------------------------------
(* Claims about defaults, validation and the per-sash state *)

\* C22: a profile string that is missing, has no leading integer or parses
\* outside 1..4 resolves to the modern-slim library entry; a sash opening
\* string that has no leading integer or parses outside 1..6 resolves to
\* kind fixed; every sash below the pane count has one of the six kinds.
C22_UnmappedSelectorsDefault ==
    /\ \A s \in PropStrings :
           (profileChoice = profileChoiceOf(s)
              /\ (s = "" \/ parseInt(s) = NaN \/ parseInt(s) \notin 1..4)) =>
               /\ profileKey = "modern-slim"
               /\ profileConfig = [width |-> 60, depth |-> 70]
    /\ \A i \in 1..windowType :
           /\ OpeningType(i) \in
                  {"fixed", "kipp", "dreh-links", "dreh-rechts",
                   "dreh-kipp-links", "dreh-kipp-rechts"}
           /\ \A s \in PropStrings :
                  (s # "" /\ sashChoice[i] = parseInt(s)
                     /\ (parseInt(s) = NaN \/ parseInt(s) \notin 1..6)) =>
                      OpeningType(i) = "fixed"

\* A window whose profile string parses above the library and which has a
\* sash whose opening string has no leading integer.
C22_Witness ==
    /\ profileChoice = parseInt("7")
    /\ profileKey = "modern-slim"
    /\ \E i \in 1..windowType : sashChoice[i] = NaN /\ OpeningType(i) = "fixed"

\* C23: a ring whose dimensions are invalid is omitted and its siblings are
\* still produced, so that every segment of every ring createCompleteFrame
\* returns has a positive profile width, profile depth and length.
C23_InvalidRingOmitted ==
    /\ \A k \in 1..Len(outerFrameSegments) :
           /\ outerFrameSegments[k].profileWidth > 0
           /\ outerFrameSegments[k].profileDepth > 0
           /\ outerFrameSegments[k].length > 0
    /\ \A i \in DOMAIN sashFrameSegments : \A k \in 1..Len(sashFrameSegments[i]) :
           /\ sashFrameSegments[i][k].profileWidth > 0
           /\ sashFrameSegments[i][k].profileDepth > 0
           /\ sashFrameSegments[i][k].length > 0

\* C24: a SET_WIDTH action whose payload is outside
\* [WINDOW_MIN_WIDTH, WINDOW_MAX_WIDTH] leaves the configuration as it was,
\* and one whose payload is inside the range makes the width the payload.
C24_InvalidWidthRejected ==
    [][lastAction'.type = "SET_WIDTH" =>
          IF lastAction'.payload < WINDOW_MIN_WIDTH
                \/ lastAction'.payload > WINDOW_MAX_WIDTH
          THEN reducerState' = reducerState
          ELSE reducerState'.width = lastAction'.payload]_vars

\* C25: after any sequence of reducer actions from DEFAULT_WINDOW_CONFIG the
\* width and the height are within [400, 3000] and the depth within [50, 150].
C25_ConfigurationAlwaysValid ==
    /\ reducerState.width >= WINDOW_MIN_WIDTH
    /\ reducerState.width <= WINDOW_MAX_WIDTH
    /\ reducerState.height >= WINDOW_MIN_HEIGHT
    /\ reducerState.height <= WINDOW_MAX_HEIGHT
    /\ reducerState.depth >= WINDOW_MIN_DEPTH
    /\ reducerState.depth <= WINDOW_MAX_DEPTH

\* The transform Window.tsx asks for when it places a segment of a sash ring.
SashSegmentTransform(segment) ==
    getSashSegmentTransform(segment, sashWidth, innerHeight, sashPlacementDepth,
                            sashZOffset, Pct(70, ProfileWidth))

\* C26: for every sash area and profile, the rails createSashFrame builds
\* have the length areaWidth - SASH_CLEARANCE - 2 * 0.7 * profileWidth, which
\* is the rail span aw - 2 * spw the placement moves the rails by, and the
\* stiles have the length areaHeight - SASH_CLEARANCE, which is the
\* placement's ah.
C26_PlacementUsesActualSashSize ==
    \A i \in 1..windowType :
        /\ sashFrameSegments[i][1].length =
               sashWidth - SASH_CLEARANCE - 2 * Pct(70, ProfileWidth)
        /\ sashFrameSegments[i][2].length = sashFrameSegments[i][1].length
        /\ sashFrameSegments[i][1].length = SashSegmentTransform("bottom").meshPosition[1]
        /\ sashFrameSegments[i][2].length = SashSegmentTransform("top").meshPosition[1]
        /\ sashFrameSegments[i][3].length = innerHeight - SASH_CLEARANCE
        /\ sashFrameSegments[i][4].length = sashFrameSegments[i][3].length
        /\ sashFrameSegments[i][3].length = SashSegmentTransform("left").meshPosition[2]
        /\ sashFrameSegments[i][4].length = SashSegmentTransform("right").meshPosition[2]

\* A three-pane window with the widest profile, made wider by its host.
C26_Witness ==
    /\ windowType = 3
    /\ profileKey = "traditional"
    /\ widthCm = 150
    /\ nProps > 0
    /\ sashFrameSegments[3][1].length = SashSegmentTransform("bottom").meshPosition[1]

\* The pivot sash `i` is rendered with: "tilt", "left", "right" or "none".
PivotOf(i) ==
    LET kind == OpeningType(i)
        mode == ModeAt(sashModes, i)
    IN  IF kind = "kipp" \/ (IsHybrid(i) /\ mode = "kipp") THEN "tilt"
        ELSE IF kind \in {"dreh-links", "dreh-kipp-links"} THEN "left"
        ELSE IF kind \in {"dreh-rechts", "dreh-kipp-rechts"} THEN "right"
        ELSE "none"

\* C27: in every reachable state the angle of a sash has the sign and range
\* of the pivot it is rendered with: within [0, pi/16] on the tilt pivot,
\* within [-0.6 pi, 0] on a left hinge, within [0, 0.6 pi] on a right hinge.
C27_AngleWithinPivotRange ==
    \A i \in 1..windowType :
        /\ PivotOf(i) = "tilt" => (0 <= RotationAt(i) /\ RotationAt(i) <= PiOver16)
        /\ PivotOf(i) = "left" => (-Pi06 <= RotationAt(i) /\ RotationAt(i) <= 0)
        /\ PivotOf(i) = "right" => (0 <= RotationAt(i) /\ RotationAt(i) <= Pi06)

\* C28: for every kind and mode the hinge position plus the sash offset is
\* the centre of the sash area: hingeX + sashOffsetX = baseSashX and
\* hingeY + sashOffsetY = 0, so the closed position of a sash does not
\* depend on its kind or mode.
C28_ClosedPositionIndependentOfKind ==
    \A i \in 1..windowType :
        LET hinge == Hinge(i)
        IN  /\ hinge.hingeX + hinge.sashOffsetX = baseSashX(i)
            /\ hinge.hingeY + hinge.sashOffsetY = 0

\* A window of several panes showing, closed, a hybrid sash in kipp mode and
\* a sash on a side hinge.
C28_Witness ==
    /\ windowType > 1
    /\ \E i \in 1..windowType :
           /\ IsHybrid(i) /\ ModeAt(sashModes, i) = "kipp" /\ RotationAt(i) = 0
           /\ Hinge(i).sashOffsetY > 0
    /\ \E j \in 1..windowType :
           /\ PivotOf(j) \in {"left", "right"} /\ RotationAt(j) = 0
           /\ Hinge(j).sashOffsetX # 0

\* The edges of the area of sash `i`.
SashLeftEdge(i) == baseSashX(i) - sashWidth \div 2
SashRightEdge(i) == baseSashX(i) + sashWidth \div 2

\* C29: for pane counts 1, 2 and 3 the sash areas
\* [baseSashX - sashWidth/2, baseSashX + sashWidth/2] tile the inner opening
\* [-innerWidth/2, innerWidth/2], innerWidth = width - 2 profileWidth, each
\* sharing one edge with the next, and there are as many sash rings and as
\* many glass panes as panes.
C29_SashAreasTileOpening ==
    /\ innerWidth = widthCm * 10 * UnitsPerMm - 2 * ProfileWidth
    /\ SashLeftEdge(1) = -(innerWidth \div 2)
    /\ SashRightEdge(windowType) = innerWidth \div 2
    /\ \A i \in 1..windowType : SashLeftEdge(i) < SashRightEdge(i)
    /\ \A i \in 1..(windowType - 1) : SashRightEdge(i) = SashLeftEdge(i + 1)
    /\ DOMAIN sashFrameSegments = 1..windowType
    /\ DOMAIN glassGeometries = 1..windowType

\* A three-pane window resized by its host.
C29_Witness ==
    /\ windowType = 3
    /\ widthCm = 150
    /\ nProps > 0
    /\ SashRightEdge(1) = SashLeftEdge(2)
    /\ SashRightEdge(2) = SashLeftEdge(3)

\* The three state arrays are equally long and cover every pane.
ArraysAligned ==
    /\ Len(sashOpenStates) = Len(sashRotations)
    /\ Len(sashModes) = Len(sashRotations)
    /\ Len(sashRotations) >= windowType

\* C30: the three per-sash state arrays always have the same length, which
\* is at least the pane count once the window has rendered; no step (toggle,
\* deferred reopen, tick or pane-count change) removes an entry, and every
\* entry a step adds is (false, 0, dreh), so each sash index has exactly one
\* entry and it was initialised with the defaults.
C30_StateArraysAligned ==
    /\ ArraysAligned
    /\ [][/\ ArraysAligned'
          /\ Len(sashRotations') >= Len(sashRotations)
          /\ \A k \in (Len(sashRotations) + 1)..Len(sashRotations') :
                 /\ sashOpenStates'[k] = FALSE
                 /\ sashRotations'[k] = 0
                 /\ sashModes'[k] = "dreh"]_vars

\* A window grown to three panes after its first sash was opened and had
\* started to turn.
C30_Witness ==
    /\ windowType = 3
    /\ nProps > 0
    /\ nTicks > 0
    /\ Len(sashRotations) = 3
    /\ sashOpenStates[1] /\ sashRotations[1] # 0
    /\ ~sashOpenStates[3] /\ sashRotations[3] = 0 /\ sashModes[3] = "dreh"

====
